---- MODULE Spec2Model ----
(***************************************************************************)
(* texman: a package manager for TeX Live (src/src/main.rs).               *)
(*                                                                         *)
(* Ten specifications share this module.                                   *)
(*   SpecResolve  draws a package index from a bounded set and runs        *)
(*                `install` of a target on an empty root, which applies    *)
(*                resolve_dependencies to it.                              *)
(*   Spec         is the command-level state machine over the on-disk      *)
(*                state under R = ~/.texman: catalog cache, profiles,      *)
(*                active pointer, backups, staging files and the two       *)
(*                tables of texman.sqlite.  The environment may inject one *)
(*                fault (a failed transfer, a failed unpack, a kill).      *)
(*   SpecLong     is the same machine on longer runs without faults.       *)
(*   SpecUpdate   draws an installed profile and a catalog from bounded    *)
(*                sets and runs `update` on them.                          *)
(*   SpecFetch    runs one `install` step by step: its download tasks      *)
(*                advance and complete in any order, the results are       *)
(*                joined, and the archives are unpacked one at a time.     *)
(*   SpecParse    draws a catalog block from a bounded set of lines and    *)
(*                applies parse_tlpdb to it.                               *)
(*   SpecExtract  runs `update` or `install` once with the unpack of any   *)
(*                plan position failing.                                   *)
(*   SpecDiamond  is SpecResolve on the indexes of four present packages.  *)
(*   SpecResolveSteps runs resolve_dependencies call by call on a stack.   *)
(*   SpecAll      is Spec with the listing commands, on shorter runs.      *)
(***************************************************************************)
EXTENDS Integers, Sequences, FiniteSets, TLC

VARIABLES
    \* ---- resolver harness (SpecResolve) ----
    rTlpdb,      \* the index handed to resolve_dependencies
    rTarget,     \* the requested package name
    rOut,        \* result of the run, or the marker NotRun
    \* ---- on-disk state under R (Spec) ----
    txt,         \* R/db/tlpdb.txt: 0 = absent, else the mirror version it holds
    fresh,       \* tlpdb.txt is at most 24 hours old
    bin,         \* R/db/tlpdb.bin: absent, undecodable, or a serialized index
    dirs,        \* dirs[p]: the entries of R/profiles/<p>, for each p that exists
    active,      \* link target of R/active, or NoActive
    installed,   \* rows of installed_packages
    backupsRoot, \* R/backups exists
    backupDirs,  \* backupDirs[n]: the entries of R/backups/<n>, for each n that exists
    backups,     \* rows of backups
    staging,     \* archive files directly under R
    \* ---- observation ----
    ncmds,       \* commands the run may still issue
    mayFault,    \* the environment may still inject a fault
    last,        \* the command that ran last and how it ended
    allOk,       \* every command so far completed successfully
    snap,        \* what the active profile held when `backup create n` last succeeded
    \* ---- one install in steps (SpecFetch, SpecResolveSteps) ----
    job,         \* the command in progress: its open calls, or its tasks and loop position
    \* ---- parser harness (SpecParse) ----
    pText,       \* the catalog text handed to parse_tlpdb
    pOut         \* the index it returned, or the marker NotRun

rvars == <<rTlpdb, rTarget, rOut>>
xvars == <<job, pText, pOut>>
svars == <<txt, fresh, bin, dirs, active, installed,
           backupsRoot, backupDirs, backups, staging, ncmds, mayFault, last, allOk,
           snap>>
vars == <<rvars, svars, xvars>>

(***************************************************************************)
(* Small helpers on sequences.                                             *)
(***************************************************************************)
Range(s) == {s[i] : i \in DOMAIN s}

Contains(s, x) == \E i \in DOMAIN s : s[i] = x

SeqsUpTo(S, n) == UNION {[1..k -> S] : k \in 0..n}

NoDups(s) == \A i, j \in DOMAIN s : i # j => s[i] # s[j]

(***************************************************************************)
(* resolve_dependencies (main.rs 346-373).                                 *)
(* The accumulators `resolved` and `visited` are threaded through the      *)
(* recursion in a record; `err` is "" while the run is still succeeding.   *)
(***************************************************************************)
NotFound == "PackageNotFound"
Cycle == "DependencyCycle"

ResolveState(resolved, visited) ==
    [resolved |-> resolved, visited |-> visited, err |-> "", at |-> ""]

ResolveFail(st, kind, name) == [st EXCEPT !.err = kind, !.at = name]

\* main.rs 354: the cycle test made on entry to a package.
CycleCheck(st, name) ==
    Contains(st.visited, name) /\ ~Contains(st.resolved, name)

\* a resolver that also skips the dependencies it has entered
NeedsResolveUnvisited(st, dep) ==
    ~Contains(st.resolved, dep) /\ ~Contains(st.visited, dep)

\* a resolver that recurses into every dependency
NeedsResolveAlways(st, dep) == TRUE

\* main.rs 361: a dependency is recursed into only when not yet resolved.
NeedsResolve(st, dep) == ~Contains(st.resolved, dep)

\* main.rs 364: after the recursive call returns, the caller appends the
\* dependency to `resolved` (the callee has appended it already, line 369).
PushDep(st, dep) == [st EXCEPT !.resolved = Append(@, dep)]

\* a resolver that puts the package before what it has resolved
PushSelfFront(st, name) ==
    IF Contains(st.resolved, name) THEN st
    ELSE [st EXCEPT !.resolved = <<name>> \o @]

\* main.rs 368-370: the package appends itself unless already present.
PushSelf(st, name) ==
    IF Contains(st.resolved, name) THEN st
    ELSE [st EXCEPT !.resolved = Append(@, name)]

RECURSIVE resolve_dependencies(_, _, _)
RECURSIVE ResolveDeps(_, _, _, _)
RECURSIVE ResolveDepsMarking(_, _, _, _)

\* a loop that marks a dependency as visited before it recurses into it
ResolveDepsMarking(deps, i, tlpdb, st) ==
    IF i > Len(deps) THEN st
    ELSE IF NeedsResolve(st, deps[i])
         THEN LET marked == [st EXCEPT !.visited = Append(@, deps[i])]
                  sub == resolve_dependencies(deps[i], tlpdb, marked)
              IN  IF sub.err # "" THEN sub
                  ELSE ResolveDepsMarking(deps, i + 1, tlpdb, PushDep(sub, deps[i]))
         ELSE ResolveDepsMarking(deps, i + 1, tlpdb, st)

\* main.rs 360-366: the loop over pkg.depends, from position i on.
ResolveDeps(deps, i, tlpdb, st) ==
    IF i > Len(deps) THEN st
    ELSE IF NeedsResolve(st, deps[i])
         THEN LET sub == resolve_dependencies(deps[i], tlpdb, st)
              IN  IF sub.err # "" THEN sub
                  ELSE ResolveDeps(deps, i + 1, tlpdb, PushDep(sub, deps[i]))
         ELSE ResolveDeps(deps, i + 1, tlpdb, st)

resolve_dependencies(package, tlpdb, st) ==
    IF package \notin DOMAIN tlpdb THEN ResolveFail(st, NotFound, package)
    ELSE LET pkg == tlpdb[package]
         IN  IF CycleCheck(st, pkg.name) THEN ResolveFail(st, Cycle, pkg.name)
             ELSE LET entered == [st EXCEPT !.visited = Append(@, pkg.name)]
                      after == ResolveDeps(pkg.depends, 1, tlpdb, entered)
                  IN  IF after.err # "" THEN after
                      ELSE PushSelf(after, pkg.name)

\* The call made by install_package (main.rs 444-446): both accumulators empty.
Resolve(package, tlpdb) ==
    resolve_dependencies(package, tlpdb, ResolveState(<<>>, <<>>))

(***************************************************************************)
(* Graph notions used to state the resolver's contract.                    *)
(***************************************************************************)
DepsOf(tlpdb, n) == IF n \in DOMAIN tlpdb THEN Range(tlpdb[n].depends) ELSE {}

RECURSIVE Closure(_, _)
Closure(tlpdb, S) ==
    LET T == S \cup UNION {DepsOf(tlpdb, n) : n \in S}
    IN  IF T = S THEN S ELSE Closure(tlpdb, T)

\* names reachable from n in zero or more steps / in one or more steps
Reach(tlpdb, n) == Closure(tlpdb, {n})
ReachPlus(tlpdb, n) == IF DepsOf(tlpdb, n) = {} THEN {} ELSE Closure(tlpdb, DepsOf(tlpdb, n))

FullyPresent(tlpdb, target) == Reach(tlpdb, target) \subseteq DOMAIN tlpdb

HasCycle(tlpdb, target) ==
    \E n \in Reach(tlpdb, target) : n \in ReachPlus(tlpdb, n)

(***************************************************************************)
(* The catalog text and parse_tlpdb (main.rs 263-344).                     *)
(* A text is a sequence of blocks (the pieces between blank lines), a      *)
(* block a sequence of lines.  A line is kept as its leading-whitespace    *)
(* flag, its first word and the comma-separated fields of what follows the *)
(* first space; val = <<>> is a line that holds the word alone.            *)
(***************************************************************************)
Line(kw, val) == [indent |-> FALSE, kw |-> kw, val |-> val]
Indented(kw, val) == [indent |-> TRUE, kw |-> kw, val |-> val]

\* str::trim on the padded tokens the catalogs below use
Padded == [s \in {" a", " b", "a ", " x", " "} |->
             CASE s = " a" -> "a" [] s = " b" -> "b" [] s = "a " -> "a" [] s = " x" -> "x"
               [] s = " " -> ""]
TrimStr(s) == IF s \in DOMAIN Padded THEN Padded[s] ELSE s

\* str::trim at the end of a token
PaddedEnd == [s \in {"a ", " "} |-> CASE s = "a " -> "a" [] s = " " -> ""]
TrimEnd(s) == IF s \in DOMAIN PaddedEnd THEN PaddedEnd[s] ELSE s

\* main.rs 282: line.trim() drops the leading whitespace of the line and the
\* whitespace at its end; a word followed by nothing but whitespace becomes
\* the word alone
TrimLine(line) ==
    LET n == Len(line.val)
        v == [i \in DOMAIN line.val |-> IF i = n THEN TrimEnd(line.val[i]) ELSE line.val[i]]
    IN  [indent |-> FALSE, kw |-> line.kw, val |-> IF v = <<"">> THEN <<>> ELSE v]

\* line.starts_with("<kw> "): the word followed by a space and more text
StartsWith(line, kw) == ~line.indent /\ line.kw = kw /\ line.val # <<>>
\* line == "<kw>"
IsWord(line, kw) == ~line.indent /\ line.kw = kw /\ line.val = <<>>
IsEmptyLine(line) == line.kw = "" /\ line.val = <<>>
\* line.starts_with(' ')
StartsWithSpace(line) == line.indent
\* &line[k..] for a one-field remainder
Rest(line) == line.val[1]

None == <<>>
Some(x) == <<x>>

Mirror == "http://mirror.ctan.org/systems/texlive/tlnet/archive/"
ArchiveUrl(file) == <<Mirror, file>>
TarXz(name) == <<name, "tar.xz">>

\* main.rs 266-279
NewPackage ==
    [name |-> "", revision |-> "unknown", url |-> <<>>, depends |-> <<>>,
     runfiles |-> <<>>, binfiles |-> <<>>, description |-> None, longdesc |-> None]

BlockStart ==
    [pkg |-> NewPackage, in_runfiles |-> FALSE, in_binfiles |-> FALSE,
     in_longdesc |-> FALSE, longdesc_lines |-> <<>>]

\* main.rs 303-309
DependsFields(line) == [i \in DOMAIN line.val |-> TrimStr(line.val[i])]

\* main.rs 294-327: the directive chain applied to a trimmed line
Directive(b, line) ==
    IF StartsWith(line, "name")
    THEN [b EXCEPT !.pkg.name = Rest(line), !.pkg.url = ArchiveUrl(TarXz(Rest(line)))]
    ELSE IF IsWord(line, "runfiles")
    THEN [b EXCEPT !.in_runfiles = TRUE, !.in_binfiles = FALSE]
    ELSE IF IsWord(line, "binfiles")
    THEN [b EXCEPT !.in_runfiles = FALSE, !.in_binfiles = TRUE]
    ELSE IF StartsWith(line, "depends")
    THEN [b EXCEPT !.pkg.depends = @ \o DependsFields(line),
                   !.in_runfiles = FALSE, !.in_binfiles = FALSE]
    ELSE IF StartsWith(line, "revision")
    THEN [b EXCEPT !.pkg.revision = Rest(line),
                   !.in_runfiles = FALSE, !.in_binfiles = FALSE]
    ELSE IF StartsWith(line, "shortdesc")
    THEN [b EXCEPT !.pkg.description = Some(Rest(line)),
                   !.in_runfiles = FALSE, !.in_binfiles = FALSE]
    ELSE IF StartsWith(line, "longdesc")
    THEN [b EXCEPT !.in_longdesc = TRUE, !.longdesc_lines = Append(@, Line("", line.val)),
                   !.in_runfiles = FALSE, !.in_binfiles = FALSE]
    ELSE IF b.in_runfiles /\ StartsWithSpace(line)
    THEN [b EXCEPT !.pkg.runfiles = Append(@, line.kw)]
    ELSE IF b.in_binfiles /\ StartsWithSpace(line)
    THEN [b EXCEPT !.pkg.binfiles = Append(@, line.kw)]
    ELSE b

\* main.rs 281-292: one iteration of the loop over block.lines()
ParseLine(b, raw) ==
    LET line == TrimLine(raw)
    IN  IF b.in_longdesc
        THEN IF IsEmptyLine(line) \/ StartsWith(line, "name")
             THEN Directive([b EXCEPT !.in_longdesc = FALSE,
                                      !.pkg.longdesc = Some(b.longdesc_lines),
                                      !.longdesc_lines = <<>>], line)
             ELSE [b EXCEPT !.longdesc_lines = Append(@, line)]
        ELSE Directive(b, line)

RECURSIVE ParseLines(_, _, _)
ParseLines(b, block, i) ==
    IF i > Len(block) THEN b ELSE ParseLines(ParseLine(b, block[i]), block, i + 1)

\* main.rs 265-334: one block to a package (name "" means: dropped)
ParseBlock(block) ==
    LET b == ParseLines(BlockStart, block, 1)
    IN  IF b.in_longdesc /\ b.longdesc_lines # <<>>
        THEN [b.pkg EXCEPT !.longdesc = Some(b.longdesc_lines)]
        ELSE b.pkg

\* main.rs 337-340: later blocks of the same name overwrite earlier ones
RECURSIVE InsertAll(_, _, _)
InsertAll(tlpdb, pkgs, i) ==
    IF i > Len(pkgs) THEN tlpdb
    ELSE LET pkg == pkgs[i]
             next == IF pkg.name = "" THEN tlpdb
                     ELSE [n \in DOMAIN tlpdb \cup {pkg.name} |->
                             IF n = pkg.name THEN pkg ELSE tlpdb[n]]
         IN  InsertAll(next, pkgs, i + 1)

EmptyIndex == [n \in {} |-> NewPackage]

parse_tlpdb(text) ==
    InsertAll(EmptyIndex, [i \in DOMAIN text |-> ParseBlock(text[i])], 1)

(***************************************************************************)
(* The mirror.  What a GET of texlive.tlpdb returns changes over time; the *)
(* versions it can serve are the texts below.                              *)
(***************************************************************************)
Cat1 ==
    << <<Line("name", <<"a">>), Line("revision", <<"1">>)>>,
       <<Line("name", <<"b">>), Line("revision", <<"2">>), Line("depends", <<"a">>)>>,
       <<Line("name", <<"x">>), Line("revision", <<"10">>), Line("depends", <<>>)>> >>

Cat2 ==
    << <<Line("name", <<"a">>), Line("depends", <<"b">>)>>,
       <<Line("name", <<"b">>), Line("revision", <<"2">>), Line("depends", <<"a">>)>>,
       <<Line("name", <<"x">>), Line("revision", <<"11">>)>> >>

Catalogs == <<Cat1, Cat2>>

PackageNames == {"a", "b", "x"}
\* the packages asked for by `install`: x stands alone, b brings a with it
InstallTargets == {"b", "x"}
ProfileNames == {"default", "p1"}
BackupNames == {"snap"}

\* What the user can type where `profile remove` expects a name.  The
\* program joins the text to R/profiles as given (439, 736, 746, 809); a
\* trailing separator designates the same directory.
ProfileArgs == ProfileNames \cup {"default/"}
Slashed == [a \in {"default/"} |-> "default"]
\* the entry of R/profiles that R/profiles.join(name) designates; also what
\* Path::file_name gives for that path
DirName(name) == IF name \in DOMAIN Slashed THEN Slashed[name] ELSE name

(***************************************************************************)
(* fetch_tlpdb (main.rs 188-235).                                          *)
(*   aged   Utc::now() has moved more than 24 hours past the mtime of       *)
(*          tlpdb.txt since the previous command looked                    *)
(*   net    what the mirror answers if asked: 0 = the GET or its UTF-8     *)
(*          check fails, k = version k of the catalog                      *)
(*   kill   where the process is terminated, if it is: "afterTxt" between  *)
(*          the write of tlpdb.txt (220) and the creation of tlpdb.bin     *)
(*          (229); "inBin" after tlpdb.bin was created and before it is    *)
(*          complete (229-231)                                             *)
(***************************************************************************)
NoBin == [kind |-> "absent"]
BadBin == [kind |-> "undecodable"]
\* parse_tlpdb of each version the mirror serves
Parsed == [k \in DOMAIN Catalogs |-> parse_tlpdb(Catalogs[k])]

\* bincode::serialize_into / deserialize_from.  The file is kept as the
\* version whose parse it serializes; deserializing gives that index back.
Serialize(k) == [kind |-> "index", of |-> k]
CanDeserialize(b) == b.kind = "index"
Deserialize(b) == Parsed[b.of]

Cache == [txt |-> txt, fresh |-> fresh, bin |-> bin]

Loaded(c, tlpdb) == [cache |-> c, ok |-> TRUE, err |-> "", tlpdb |-> tlpdb]
LoadFailed(c, e) == [cache |-> c, ok |-> FALSE, err |-> e, tlpdb |-> EmptyIndex]

\* main.rs 198-207
should_fetch(c) == IF c.txt # 0 THEN ~c.fresh ELSE TRUE

\* main.rs 199-204: the age of the text as this run measures it
Aged(c, aged) == [c EXCEPT !.fresh = @ /\ ~aged]

\* main.rs 209-215: the branch taken when the text is fresh and the binary exists
LoadBinary(c) ==
    IF CanDeserialize(c.bin) THEN Loaded(c, Deserialize(c.bin))
    ELSE LoadFailed(c, "Deserialize")

\* main.rs 228-234
ParseAndSave(c, kill) ==
    LET tlpdb == Parsed[c.txt]
    IN  IF kill = "inBin" THEN LoadFailed([c EXCEPT !.bin = BadBin], "Killed")
        ELSE Loaded([c EXCEPT !.bin = Serialize(c.txt)], tlpdb)

FetchOrLoad(c, net, kill) ==
    IF ~should_fetch(c) /\ c.bin # NoBin THEN LoadBinary(c)
    ELSE IF should_fetch(c)
    THEN IF net = 0 THEN LoadFailed(c, "CatalogFetch")
         ELSE LET written == [c EXCEPT !.txt = net, !.fresh = TRUE]
              IN  IF kill = "afterTxt" THEN LoadFailed(written, "Killed")
                  ELSE ParseAndSave(written, kill)
    ELSE ParseAndSave(c, kill)

fetch_tlpdb(c, aged, net, kill) == FetchOrLoad(Aged(c, aged), net, kill)

(***************************************************************************)
(* The state under R that the commands read and write, as one record, so   *)
(* that each command is an operator from state to outcome.                 *)
(***************************************************************************)
NoActive == "none"

Sys ==
    [dirs |-> dirs, active |-> active, installed |-> installed,
     backupsRoot |-> backupsRoot, backupDirs |-> backupDirs,
     backups |-> backups, staging |-> staging]

\* An outcome: the state left behind, success or the error, and how many
\* download tasks the command spawned.
Done(s) == [sys |-> s, ok |-> TRUE, err |-> "", tasks |-> 0]
Failed(s, e) == [sys |-> s, ok |-> FALSE, err |-> e, tasks |-> 0]
Spawned(out, n) == [out EXCEPT !.tasks = n]

\* format!("{}-r{}", name, revision): the entry of a profile directory
StorePath(name, revision) == <<name, revision>>

Row(profile, name, revision) ==
    [profile |-> profile, name |-> name, revision |-> revision]

BackupRow(backup_name, profile, name, revision) ==
    [backup_name |-> backup_name, profile |-> profile, name |-> name,
     revision |-> revision]

\* INSERT OR REPLACE INTO installed_packages, PRIMARY KEY (profile, name)
Upsert(rows, profile, name, revision) ==
    {r \in rows : ~(r.profile = profile /\ r.name = name)}
        \cup {Row(profile, name, revision)}

RowsOf(rows, profile) == {r \in rows : r.profile = profile}

\* the order in which a SELECT over the (profile, name) key yields rows
NameOrder == <<"a", "b", "x">>

RECURSIVE SortedFrom(_, _)
SortedFrom(rows, i) ==
    IF i > Len(NameOrder) THEN <<>>
    ELSE LET here == {r \in rows : r.name = NameOrder[i]}
         IN  (IF here = {} THEN <<>> ELSE <<CHOOSE r \in here : TRUE>>)
                 \o SortedFrom(rows, i + 1)

Select(rows) == SortedFrom(rows, 1)

\* create_dir_all(R/profiles/<profile>)
MkProfile(s, profile) ==
    IF DirName(profile) \in DOMAIN s.dirs THEN s
    ELSE [s EXCEPT !.dirs = [p \in DOMAIN s.dirs \cup {DirName(profile)} |->
                               IF p = DirName(profile) THEN {} ELSE s.dirs[p]]]

\* Path::exists on R/active follows the link: the link and its target exist
ActiveExists(s) == s.active # NoActive /\ s.active \in DOMAIN s.dirs

\* std::os::unix::fs::symlink fails when R/active is already there.  The
\* link is kept as the file_name of its target, which is all the program
\* reads of it (518-523, 641-646, 816, 857-862, 905-910).
Symlink(s, profile) ==
    IF s.active # NoActive THEN Failed(s, "IO")
    ELSE Done([s EXCEPT !.active = DirName(profile)])

(***************************************************************************)
(* download_package (main.rs 375-433).                                     *)
(***************************************************************************)
\* main.rs 376-382 on the host the model runs the program on
platform_suffix == "x86_64-linux"

\* the last component of the paths the catalogs list
PathTail == [f \in {} |-> <<>>]
EndsWith(file, archive) == file \in DOMAIN PathTail /\ PathTail[file] = archive

\* main.rs 384-409
archive_name(pkg) ==
    IF \E i \in DOMAIN pkg.binfiles :
          EndsWith(pkg.binfiles[i], <<pkg.name, platform_suffix, "tar.xz">>)
    THEN <<pkg.name, platform_suffix, "tar.xz">>
    ELSE TarXz(pkg.name)

\* main.rs 411: texman_dir.join(&archive_name)
download_path(pkg) == archive_name(pkg)

\* One task's outcome: "ok" the archive is written in full; "http" the GET
\* fails before the file is created (413-414); "chunk" a chunk fails after
\* the file was created (423-427), leaving a partial file.
FetchOutcomes == {"ok", "http", "chunk"}

\* main.rs 459-466 and 550-557: one task per plan entry, each writing the
\* file download_package computes for its package
TaskPaths(pkgs) == [i \in DOMAIN pkgs |-> download_path(pkgs[i])]

\* main.rs 459-468: all tasks are spawned and all are awaited
Downloaded(s, pkgs, fo) ==
    [s EXCEPT !.staging =
        @ \cup {download_path(pkgs[i]) : i \in {j \in DOMAIN pkgs : fo[j] # "http"}}]

AllFetched(pkgs, fo) == \A i \in DOMAIN pkgs : fo[i] = "ok"

(***************************************************************************)
(* The extraction loop shared in shape by install (477-495) and update     *)
(* (568-592).  xfail is the position whose unpack fails, 0 for none.       *)
(***************************************************************************)
AddEntry(s, profile, entry) == [s EXCEPT !.dirs[DirName(profile)] = @ \cup {entry}]

\* main.rs 490-493 and 581-584: the row is written after the unpack
WriteRow(s, profile, pkg) ==
    [s EXCEPT !.installed = Upsert(@, profile, pkg.name, pkg.revision)]

\* main.rs 587-591: old_path is built from the new revision
OldPath(pkg) == StorePath(pkg.name, pkg.revision)

RemoveOld(s, profile, pkg, store_path) ==
    IF OldPath(pkg) \in s.dirs[DirName(profile)] /\ OldPath(pkg) # store_path
    THEN [s EXCEPT !.dirs[DirName(profile)] = @ \ {OldPath(pkg)}]
    ELSE s

RECURSIVE ExtractLoop(_, _, _, _, _, _)
RECURSIVE ExtractLoopRowFirst(_, _, _, _, _, _)

\* a loop that writes the row of an entry before it unpacks the archive
ExtractLoopRowFirst(s, profile, pkgs, i, xfail, isUpdate) ==
    IF i > Len(pkgs) THEN Done(s)
    ELSE LET pkg == pkgs[i]
             store_path == StorePath(pkg.name, pkg.revision)
             made == WriteRow(AddEntry(s, profile, store_path), profile, pkg)
         IN  IF download_path(pkg) \notin made.staging THEN Failed(made, "IO")
             ELSE IF xfail = i THEN Failed(made, "ExtractFailure")
             ELSE LET removed == [made EXCEPT !.staging = @ \ {download_path(pkg)}]
                      next == IF isUpdate THEN RemoveOld(removed, profile, pkg, store_path)
                              ELSE removed
                  IN  ExtractLoopRowFirst(next, profile, pkgs, i + 1, xfail, isUpdate)

\* main.rs 477-495 and 568-592: create the target directory, open the
\* archive, unpack it, remove the archive, write the row
ExtractLoop(s, profile, pkgs, i, xfail, isUpdate) ==
    IF i > Len(pkgs) THEN Done(s)
    ELSE LET pkg == pkgs[i]
             store_path == StorePath(pkg.name, pkg.revision)
             made == AddEntry(s, profile, store_path)
         IN  IF download_path(pkg) \notin made.staging THEN Failed(made, "IO")
             ELSE IF xfail = i THEN Failed(made, "ExtractFailure")
             ELSE LET removed == [made EXCEPT !.staging = @ \ {download_path(pkg)}]
                      rowed == WriteRow(removed, profile, pkg)
                      next == IF isUpdate THEN RemoveOld(rowed, profile, pkg, store_path)
                              ELSE rowed
                  IN  ExtractLoop(next, profile, pkgs, i + 1, xfail, isUpdate)

(***************************************************************************)
(* install_package (main.rs 435-504).                                      *)
(***************************************************************************)
\* an install that always points R/active at the profile it installed into
SetActiveAlways(s, profile) == Done([s EXCEPT !.active = DirName(profile)])

\* main.rs 497-501
SetActiveIfUnset(s, profile) ==
    IF ~ActiveExists(s) THEN Symlink(s, profile) ELSE Done(s)

\* an install that unpacks the archives fetched ahead of the first failed
\* fetch before it reports the failure
install_package_Eager(s, package, profile, tlpdb, fo, xfail) ==
    LET made == MkProfile(s, profile)
        plan == Resolve(package, tlpdb)
    IN  IF plan.err # "" THEN Failed(made, plan.err)
        ELSE LET to_install == plan.resolved
                 packages == [i \in DOMAIN to_install |-> tlpdb[to_install[i]]]
                 fetched == Downloaded(made, packages, fo)
                 n == Len(packages)
             IN  IF to_install = <<>> THEN Done(made)
                 ELSE IF ~AllFetched(packages, fo)
                 THEN LET k == CHOOSE i \in DOMAIN fo :
                                   fo[i] # "ok" /\ \A j \in 1..(i - 1) : fo[j] = "ok"
                          x == ExtractLoop(fetched, profile, SubSeq(packages, 1, k - 1),
                                           1, 0, FALSE)
                      IN  Spawned(Failed(x.sys, "ArchiveFetch"), n)
                 ELSE LET x == ExtractLoop(fetched, profile, packages, 1, xfail, FALSE)
                      IN  Spawned(IF ~x.ok THEN x ELSE SetActiveIfUnset(x.sys, profile), n)

\* main.rs 439-503: the profile directory, the plan, the downloads awaited
\* together, the archives unpacked in plan order, the active pointer
install_package(s, package, profile, tlpdb, fo, xfail) ==
    LET made == MkProfile(s, profile)
        plan == Resolve(package, tlpdb)
    IN  IF plan.err # "" THEN Failed(made, plan.err)
        ELSE LET to_install == plan.resolved
                 packages == [i \in DOMAIN to_install |-> tlpdb[to_install[i]]]
                 fetched == Downloaded(made, packages, fo)
                 n == Len(packages)
             IN  IF to_install = <<>> THEN Done(made)
                 ELSE IF ~AllFetched(packages, fo)
                 THEN Spawned(Failed(fetched, "ArchiveFetch"), n)
                 ELSE LET x == ExtractLoop(fetched, profile, packages, 1, xfail, FALSE)
                      IN  Spawned(IF ~x.ok THEN x ELSE SetActiveIfUnset(x.sys, profile), n)

(***************************************************************************)
(* update_packages (main.rs 506-595).                                      *)
(***************************************************************************)
\* str::parse::<u32> on the revision tokens of the catalogs
RevNum == [r \in {"1", "2", "9", "10", "11"} |->
             CASE r = "1" -> 1 [] r = "2" -> 2 [] r = "9" -> 9
               [] r = "10" -> 10 [] r = "11" -> 11]
CanParseU32(r) == r \in DOMAIN RevNum
ParseU32(r) == RevNum[r]

\* an update that also takes the packages already at the catalog revision
IsNewerOrEqual(latest_rev, current_rev) == latest_rev >= current_rev

\* main.rs 538
IsNewer(latest_rev, current_rev) == latest_rev > current_rev

RECURSIVE Preflight(_, _, _, _)
RECURSIVE PreflightSkipping(_, _, _, _)

\* a preflight that passes over the rows whose revisions do not parse
PreflightSkipping(rows, i, tlpdb, to_update) ==
    IF i > Len(rows) THEN [ok |-> TRUE, to_update |-> to_update]
    ELSE LET row == rows[i]
             usable == /\ row.name \in DOMAIN tlpdb
                       /\ CanParseU32(row.revision)
                       /\ CanParseU32(tlpdb[row.name].revision)
         IN  IF usable /\ ParseU32(tlpdb[row.name].revision) > ParseU32(row.revision)
             THEN PreflightSkipping(rows, i + 1, tlpdb, Append(to_update, tlpdb[row.name]))
             ELSE PreflightSkipping(rows, i + 1, tlpdb, to_update)

\* main.rs 531-543: the rows in turn; a revision that does not parse ends the scan
Preflight(rows, i, tlpdb, to_update) ==
    IF i > Len(rows) THEN [ok |-> TRUE, to_update |-> to_update]
    ELSE LET row == rows[i]
         IN  IF row.name \notin DOMAIN tlpdb
             THEN Preflight(rows, i + 1, tlpdb, to_update)
             ELSE LET latest_pkg == tlpdb[row.name]
                  IN  IF ~CanParseU32(row.revision) \/ ~CanParseU32(latest_pkg.revision)
                      THEN [ok |-> FALSE, to_update |-> to_update]
                      ELSE IF IsNewer(ParseU32(latest_pkg.revision), ParseU32(row.revision))
                      THEN Preflight(rows, i + 1, tlpdb, Append(to_update, latest_pkg))
                      ELSE Preflight(rows, i + 1, tlpdb, to_update)

UpdatePlan(s, tlpdb) ==
    Preflight(Select(RowsOf(s.installed, s.active)), 1, tlpdb, <<>>)

update_packages(s, tlpdb, fo, xfail) ==
    IF ~ActiveExists(s) THEN Failed(s, "NoActive")
    ELSE LET pre == UpdatePlan(s, tlpdb)
             to_update == pre.to_update
             fetched == Downloaded(s, to_update, fo)
         IN  IF ~pre.ok THEN Failed(s, "RevisionFormat")
             ELSE IF to_update = <<>> THEN Done(s)
             ELSE IF ~AllFetched(to_update, fo)
             THEN Spawned(Failed(fetched, "ArchiveFetch"), Len(to_update))
             ELSE Spawned(ExtractLoop(fetched, s.active, to_update, 1, xfail, TRUE),
                          Len(to_update))

(***************************************************************************)
(* remove_package (main.rs 629-668).                                       *)
(***************************************************************************)
remove_package(s, package) ==
    IF ~ActiveExists(s) THEN Failed(s, "NoActive")
    ELSE LET found == {r \in RowsOf(s.installed, s.active) : r.name = package}
         IN  IF found = {} THEN Done(s)
             ELSE LET row == CHOOSE r \in found : TRUE
                  IN  Done([s EXCEPT
                        !.dirs[s.active] = @ \ {StorePath(package, row.revision)},
                        !.installed = @ \ found])

(***************************************************************************)
(* Profiles (main.rs 732-829).                                             *)
(***************************************************************************)
create_profile(s, name) == Done(MkProfile(s, name))

switch_profile(s, name) ==
    IF DirName(name) \notin DOMAIN s.dirs THEN Failed(s, "ProfileMissing")
    ELSE Symlink(IF ActiveExists(s) THEN [s EXCEPT !.active = NoActive] ELSE s, name)

\* main.rs 816: the test that protects the active profile compares the
\* file_name of the link target with the text of the argument
IsActiveProfile(s, name) == ActiveExists(s) /\ s.active = name

\* fs::remove_dir_all(R/profiles.join(name))
RmProfile(s, name) ==
    [s EXCEPT !.dirs = [p \in DOMAIN s.dirs \ {DirName(name)} |-> s.dirs[p]]]

remove_profile(s, name) ==
    IF DirName(name) \notin DOMAIN s.dirs THEN Failed(s, "ProfileMissing")
    ELSE IF IsActiveProfile(s, name) THEN Failed(s, "ProfileInUse")
    ELSE Done([RmProfile(s, name) EXCEPT
                 !.installed = {r \in @ : r.profile # name}])

(***************************************************************************)
(* Backups (main.rs 831-1001).                                             *)
(***************************************************************************)
\* create_dir_all(R/backups/<name>) then copy_recursively of every entry of
\* the active profile: entries already in the backup directory stay
CopyInto(old, entries) == old \cup entries

BackupDirAfter(s, name) ==
    CopyInto(IF name \in DOMAIN s.backupDirs THEN s.backupDirs[name] ELSE {},
             s.dirs[s.active])

\* main.rs 878-884: plain INSERTs, one per row, each its own transaction;
\* PRIMARY KEY (backup_name, name) rejects a second row for the same pair
RECURSIVE InsertBackupRows(_, _, _, _, _)
InsertBackupRows(tbl, rows, i, name, profile) ==
    IF i > Len(rows) THEN [ok |-> TRUE, tbl |-> tbl]
    ELSE IF \E b \in tbl : b.backup_name = name /\ b.name = rows[i].name
    THEN [ok |-> FALSE, tbl |-> tbl]
    ELSE InsertBackupRows(
            tbl \cup {BackupRow(name, profile, rows[i].name, rows[i].revision)},
            rows, i + 1, name, profile)

backup_profile(s, name) ==
    IF ~ActiveExists(s) THEN Failed(s, "NoActive")
    ELSE LET copied == [s EXCEPT
                 !.backupsRoot = TRUE,
                 !.backupDirs = [n \in DOMAIN s.backupDirs \cup {name} |->
                                   IF n = name THEN BackupDirAfter(s, name)
                                   ELSE s.backupDirs[n]]]
             ins == InsertBackupRows(s.backups, Select(RowsOf(s.installed, s.active)),
                                     1, name, s.active)
             after == [copied EXCEPT !.backups = ins.tbl]
         IN  IF ins.ok THEN Done(after) ELSE Failed(after, "Database")

\* main.rs 933-943: the rows of the backup, written for the active profile
RestoredRows(s, name) ==
    {Row(s.active, b.name, b.revision) : b \in {c \in s.backups : c.backup_name = name}}

restore_profile(s, name) ==
    IF ~ActiveExists(s) THEN Failed(s, "NoActive")
    ELSE IF name \notin DOMAIN s.backupDirs THEN Failed(s, "BackupMissing")
    ELSE Done([s EXCEPT
            !.dirs[s.active] = s.backupDirs[name],
            !.installed = {r \in @ : r.profile # s.active} \cup RestoredRows(s, name)])

remove_backup(s, name) ==
    IF name \notin DOMAIN s.backupDirs THEN Failed(s, "BackupMissing")
    ELSE Done([s EXCEPT
            !.backupDirs = [n \in DOMAIN s.backupDirs \ {name} |-> s.backupDirs[n]],
            !.backups = {b \in @ : b.backup_name # name}])

(***************************************************************************)
(* clean (main.rs 1003-1034).                                              *)
(***************************************************************************)
NoBackupDirs == [n \in {} |-> {}]

\* a variant of clean that removes the backup directories and keeps the rows
clean_KeepTable(s, remove_backups) ==
    LET swept == [s EXCEPT !.staging = {}]
        n == Cardinality(s.staging)
    IN  IF remove_backups /\ s.backupsRoot
        THEN [Done([swept EXCEPT !.backupDirs = NoBackupDirs]) EXCEPT !.tasks = n]
        ELSE [Done(swept) EXCEPT !.tasks = n]

\* every entry of R with extension xz is removed and counted (removed_files,
\* 1008-1018, kept in the outcome's tasks field); with remove_backups and an
\* existing R/backups the directory is emptied and the table truncated
\* (1020-1031)
clean(s, remove_backups) ==
    LET swept == [s EXCEPT !.staging = {}]
        removed_files == Cardinality(s.staging)
    IN  IF remove_backups /\ s.backupsRoot
        THEN [Done([swept EXCEPT !.backupDirs = NoBackupDirs, !.backups = {}])
                EXCEPT !.tasks = removed_files]
        ELSE [Done(swept) EXCEPT !.tasks = removed_files]

(***************************************************************************)
(* The listing commands (main.rs 597-627, 761-803, 949-983) write nothing  *)
(* under R beyond what init_db creates.                                    *)
(***************************************************************************)
list_packages(s) == IF ~ActiveExists(s) THEN Failed(s, "NoActive") ELSE Done(s)
list_profiles(s) == Done(s)
list_backups(s) == Done(s)

(***************************************************************************)
(* main (main.rs 91-160): every command loads the catalog, then dispatches.*)
(***************************************************************************)
\* Bounds of a run: the commands issued.  The environment injects at most
\* one fault per run (a failed GET, a kill, a failed download task, a failed
\* unpack), and none in the long runs of SpecLong.
MaxCmds == 3
MaxLongCmds == 5

NetAnswers == 0..Len(Catalogs)
Kills == {"none", "afterTxt", "inBin"}

\* The inputs the load can meet from cache c: the clock is only read when
\* the text exists, an answer is only asked for when the text is fetched,
\* and a kill only strikes a write.
LoadInputsAt(c, aged) ==
    IF should_fetch(Aged(c, aged))
    THEN {<<aged, 0, "none">>} \cup ({aged} \X (NetAnswers \ {0}) \X Kills)
    ELSE IF c.bin = NoBin THEN {aged} \X {0} \X {"none", "inBin"}
    ELSE {<<aged, 0, "none">>}

LoadInputs(c) ==
    IF c.txt # 0 /\ c.fresh THEN LoadInputsAt(c, FALSE) \cup LoadInputsAt(c, TRUE)
    ELSE LoadInputsAt(c, FALSE)

LoadFaults(c, in) ==
    IF should_fetch(Aged(c, in[1]))
    THEN (IF in[2] = 0 THEN 1 ELSE 0) + (IF in[3] # "none" THEN 1 ELSE 0)
    ELSE IF in[3] # "none" THEN 1 ELSE 0

Load(c, in) == fetch_tlpdb(c, in[1], in[2], in[3])

FetchFaults(fo, xfail) ==
    Cardinality({i \in DOMAIN fo : fo[i] # "ok"}) + (IF xfail # 0 THEN 1 ELSE 0)

\* the unpack that fails, among those the loop can reach
Unpacks(fo) == IF \A i \in DOMAIN fo : fo[i] = "ok" THEN 0..Len(fo) ELSE {0}

Ran(cmd, arg, out) ==
    [cmd |-> cmd, arg |-> arg, ok |-> out.ok, err |-> out.err, tasks |-> out.tasks]

\* what `backup create n` saw of the active profile when it succeeded
Snapshot(s) ==
    [entries |-> s.dirs[s.active],
     rows |-> {<<r.name, r.revision>> : r \in RowsOf(s.installed, s.active)}]

SnapAfter(cmd, arg, out) ==
    IF cmd = "backup create" /\ out.ok
    THEN [n \in DOMAIN snap \cup {arg[1]} |->
            IF n = arg[1] THEN Snapshot(Sys) ELSE snap[n]]
    ELSE [n \in DOMAIN snap \cap DOMAIN out.sys.backupDirs |-> snap[n]]

\* a main that dispatches the command whether or not the catalog was loaded
CommitSysDispatching(cmd, arg, L, r, faults) ==
    /\ ncmds >= 1
    /\ faults = 0 \/ (mayFault /\ faults = 1)
    /\ ncmds' = ncmds - 1
    /\ mayFault' = (mayFault /\ faults = 0)
    /\ txt' = L.cache.txt /\ fresh' = L.cache.fresh /\ bin' = L.cache.bin
    /\ dirs' = r.sys.dirs /\ active' = r.sys.active /\ installed' = r.sys.installed
    /\ backupsRoot' = r.sys.backupsRoot /\ backupDirs' = r.sys.backupDirs
    /\ backups' = r.sys.backups /\ staging' = r.sys.staging
    /\ last' = Ran(cmd, arg, IF L.ok THEN r ELSE [r EXCEPT !.ok = FALSE, !.err = L.err])
    /\ allOk' = (allOk /\ L.ok /\ r.ok)
    /\ snap' = snap
    /\ UNCHANGED xvars

\* main.rs 96-159: `fetch_tlpdb().await?` returns the load's error before
\* the match on the command is reached
CommitSys(cmd, arg, L, r, faults) ==
    LET out == IF L.ok THEN r ELSE Failed(Sys, L.err)
    IN  /\ ncmds >= 1
        /\ faults = 0 \/ (mayFault /\ faults = 1)
        /\ ncmds' = ncmds - 1
        /\ mayFault' = (mayFault /\ faults = 0)
        /\ txt' = L.cache.txt
        /\ fresh' = L.cache.fresh
        /\ bin' = L.cache.bin
        /\ dirs' = out.sys.dirs
        /\ active' = out.sys.active
        /\ installed' = out.sys.installed
        /\ backupsRoot' = out.sys.backupsRoot
        /\ backupDirs' = out.sys.backupDirs
        /\ backups' = out.sys.backups
        /\ staging' = out.sys.staging
        /\ last' = Ran(cmd, arg, out)
        /\ allOk' = (allOk /\ out.ok)
        /\ snap' = SnapAfter(cmd, arg, out)
        /\ UNCHANGED xvars

Commit(cmd, arg, L, r, faults) ==
    CommitSys(cmd, arg, L, r, faults) /\ UNCHANGED rvars

\* a command that downloads nothing
Simple(cmd, arg, in, r) ==
    Commit(cmd, arg, Load(Cache, in), r, LoadFaults(Cache, in))

PlanLen(L, package) == IF L.ok THEN Len(Resolve(package, L.tlpdb).resolved) ELSE 0

Install ==
    \E package \in InstallTargets, profile \in ProfileNames, in \in LoadInputs(Cache) :
        LET L == Load(Cache, in)
            n == PlanLen(L, package)
        IN  \E fo \in [1..n -> FetchOutcomes] : \E xfail \in Unpacks(fo) :
                Commit("install", <<package, profile>>, L,
                       install_package(Sys, package, profile, L.tlpdb, fo, xfail),
                       LoadFaults(Cache, in) + FetchFaults(fo, xfail))

UpdateLen(L) ==
    IF L.ok /\ ActiveExists(Sys) THEN Len(UpdatePlan(Sys, L.tlpdb).to_update) ELSE 0

Update ==
    \E in \in LoadInputs(Cache) :
        LET L == Load(Cache, in)
            n == UpdateLen(L)
        IN  \E fo \in [1..n -> FetchOutcomes] : \E xfail \in Unpacks(fo) :
                Commit("update", <<>>, L, update_packages(Sys, L.tlpdb, fo, xfail),
                       LoadFaults(Cache, in) + FetchFaults(fo, xfail))

Remove ==
    \E package \in PackageNames, in \in LoadInputs(Cache) :
        Simple("remove", <<package>>, in, remove_package(Sys, package))

ProfileCreate ==
    \E name \in ProfileNames, in \in LoadInputs(Cache) :
        Simple("profile create", <<name>>, in, create_profile(Sys, name))

ProfileSwitch ==
    \E name \in ProfileNames, in \in LoadInputs(Cache) :
        Simple("profile switch", <<name>>, in, switch_profile(Sys, name))

ProfileRemove ==
    \E name \in ProfileArgs, in \in LoadInputs(Cache) :
        Simple("profile remove", <<name>>, in, remove_profile(Sys, name))

BackupCreate ==
    \E name \in BackupNames, in \in LoadInputs(Cache) :
        Simple("backup create", <<name>>, in, backup_profile(Sys, name))

BackupRemove ==
    \E name \in BackupNames, in \in LoadInputs(Cache) :
        Simple("backup remove", <<name>>, in, remove_backup(Sys, name))

Restore ==
    \E name \in BackupNames, in \in LoadInputs(Cache) :
        Simple("restore", <<name>>, in, restore_profile(Sys, name))

Clean ==
    \E remove_backups \in BOOLEAN, in \in LoadInputs(Cache) :
        Simple("clean", IF remove_backups THEN <<"--backups">> ELSE <<>>, in,
               clean(Sys, remove_backups))

List ==
    \E in \in LoadInputs(Cache) : Simple("list", <<>>, in, list_packages(Sys))

ProfileList ==
    \E in \in LoadInputs(Cache) : Simple("profile list", <<>>, in, list_profiles(Sys))

BackupList ==
    \E in \in LoadInputs(Cache) : Simple("backup list", <<>>, in, list_backups(Sys))

NotRun == [err |-> "not run"]
NoJob == [phase |-> "none"]

SysInit ==
    /\ job = NoJob /\ pText = <<>> /\ pOut = NotRun
    /\ txt = 0 /\ fresh = FALSE /\ bin = NoBin
    /\ dirs = [p \in {} |-> {}]
    /\ active = NoActive
    /\ installed = {}
    /\ backupsRoot = FALSE
    /\ backupDirs = NoBackupDirs
    /\ backups = {}
    /\ staging = {}
    /\ last = [cmd |-> "", arg |-> <<>>, ok |-> TRUE, err |-> "", tasks |-> 0]
    /\ allOk = TRUE
    /\ snap = [n \in {} |-> {}]

Init ==
    /\ rTlpdb = EmptyIndex /\ rTarget = "" /\ rOut = NotRun
    /\ SysInit
    /\ ncmds = MaxCmds /\ mayFault = TRUE

InitLong ==
    /\ rTlpdb = EmptyIndex /\ rTarget = "" /\ rOut = NotRun
    /\ SysInit
    /\ ncmds = MaxLongCmds /\ mayFault = FALSE

Next ==
    \/ Install
    \/ Update
    \/ Remove
    \/ ProfileCreate
    \/ ProfileSwitch
    \/ ProfileRemove
    \/ BackupCreate
    \/ BackupRemove
    \/ Restore
    \/ Clean

Spec == Init /\ [][Next]_vars

\* the same machine with the listing commands as well
MaxAllCmds == 2

InitAll ==
    /\ rTlpdb = EmptyIndex /\ rTarget = "" /\ rOut = NotRun
    /\ SysInit
    /\ ncmds = MaxAllCmds /\ mayFault = TRUE

NextAll ==
    \/ Next
    \/ List
    \/ ProfileList
    \/ BackupList

SpecAll == InitAll /\ [][NextAll]_vars

SpecLong == InitLong /\ [][Next]_vars

(***************************************************************************)
(* The resolver on every small index: each subset of ResolveNames is the   *)
(* set of packages present, each package depends on a list of at most      *)
(* MaxDeps names (repeats and absent names included), and any name is the  *)
(* target.  The one step runs `install <target>` against that index on a   *)
(* fresh root, with every download and every unpack succeeding.            *)
(***************************************************************************)
MaxDeps == 2
ResolveNames == {"a", "b", "c"}
DepLists == SeqsUpTo(ResolveNames, MaxDeps)

PackageOf(name, depends) ==
    [NewPackage EXCEPT !.name = name, !.revision = "1",
                       !.url = ArchiveUrl(TarXz(name)), !.depends = depends]

InitResolve ==
    /\ \E S \in SUBSET ResolveNames : \E d \in [S -> DepLists] :
          rTlpdb = [n \in S |-> PackageOf(n, d[n])]
    /\ rTarget \in ResolveNames
    /\ rOut = NotRun
    /\ SysInit
    /\ ncmds = 1 /\ mayFault = FALSE

AllOk(n) == [i \in 1..n |-> "ok"]

ResolveInstall ==
    /\ rOut = NotRun
    /\ rOut' = Resolve(rTarget, rTlpdb)
    /\ CommitSys("install", <<rTarget, "default">>, Loaded(Cache, rTlpdb),
                 install_package(Sys, rTarget, "default", rTlpdb,
                                 AllOk(Len(Resolve(rTarget, rTlpdb).resolved)), 0),
                 0)
    /\ UNCHANGED <<rTlpdb, rTarget>>

NextResolve == ResolveInstall

SpecResolve == InitResolve /\ [][NextResolve]_vars

(***************************************************************************)
(* resolve_dependencies in steps, on the indexes and targets of            *)
(* SpecResolve.  The recursion is run on an explicit stack: a frame is a   *)
(* call whose loop over pkg.depends stands at position i.  `call` is the   *)
(* name of the call being made, "" when none; `runs` counts, per name, the *)
(* executions of the body past the cycle check.  An error returns through  *)
(* every open call at once (the `?` at 352 and 363, the bail at 355).      *)
(***************************************************************************)
Frame(name, i) == [name |-> name, i |-> i]

\* main.rs 444-446: install_package calls the resolver on the target
CallResolver ==
    /\ job = NoJob
    /\ job' = [phase |-> "resolving", call |-> rTarget, stack |-> <<>>,
               st |-> ResolveState(<<>>, <<>>),
               runs |-> [n \in ResolveNames |-> 0]]

\* main.rs 352-358: the lookup, the cycle test, the push to `visited`
Enter ==
    /\ job.phase = "resolving" /\ job.call # ""
    /\ LET package == job.call
       IN  IF package \notin DOMAIN rTlpdb
           THEN job' = [job EXCEPT !.phase = "returned", !.call = "",
                                   !.st = ResolveFail(@, NotFound, package)]
           ELSE IF CycleCheck(job.st, rTlpdb[package].name)
           THEN job' = [job EXCEPT !.phase = "returned", !.call = "",
                                   !.st = ResolveFail(@, Cycle, rTlpdb[package].name)]
           ELSE job' = [job EXCEPT !.call = "",
                                   !.st.visited = Append(@, rTlpdb[package].name),
                                   !.stack = Append(@, Frame(package, 1)),
                                   !.runs[package] = @ + 1]

\* main.rs 360-363: the loop looks at its next dependency
LoopStep ==
    /\ job.phase = "resolving" /\ job.call = "" /\ job.stack # <<>>
    /\ LET top == job.stack[Len(job.stack)]
           deps == rTlpdb[top.name].depends
       IN  /\ top.i <= Len(deps)
           /\ IF NeedsResolve(job.st, deps[top.i])
              THEN job' = [job EXCEPT !.call = deps[top.i]]
              ELSE job' = [job EXCEPT !.stack[Len(job.stack)].i = @ + 1]

\* main.rs 368-372 and 364: the loop is over, the package pushes itself and
\* returns; the caller pushes the dependency and moves on
Return ==
    /\ job.phase = "resolving" /\ job.call = "" /\ job.stack # <<>>
    /\ LET n == Len(job.stack)
           top == job.stack[n]
           pushed == PushSelf(job.st, rTlpdb[top.name].name)
       IN  /\ top.i > Len(rTlpdb[top.name].depends)
           /\ IF n = 1
              THEN job' = [job EXCEPT !.phase = "returned", !.stack = <<>>,
                                      !.st = pushed]
              ELSE LET caller == job.stack[n - 1]
                       dep == rTlpdb[caller.name].depends[caller.i]
                   IN  job' = [job EXCEPT
                                 !.stack = Append(SubSeq(@, 1, n - 2),
                                                  Frame(caller.name, caller.i + 1)),
                                 !.st = PushDep(pushed, dep)]

NextResolveSteps ==
    (CallResolver \/ Enter \/ LoopStep \/ Return)
        /\ UNCHANGED <<rvars, svars, pText, pOut>>

\* the resolver is sequential code: a step that can be taken is taken
SpecResolveSteps ==
    InitResolve /\ [][NextResolveSteps]_vars /\ WF_vars(NextResolveSteps)


(***************************************************************************)
(* The update preflight on every small profile: the active profile         *)
(* `default` holds any subset of UpdateNames, each at any revision of      *)
(* Revisions (a package whose block has no revision line is installed at   *)
(* "unknown"), and the catalog lists any subset of them at any revision.   *)
(* The one step runs `update` against that catalog; one download or one    *)
(* unpack may fail.                                                        *)
(***************************************************************************)
UpdateNames == {"a", "x"}
Revisions == {"9", "10", "11", "unknown"}
Absent == "absent"

InitUpdate ==
    /\ \E cat \in [UpdateNames -> Revisions \cup {Absent}] :
          rTlpdb = [n \in {m \in UpdateNames : cat[m] # Absent} |->
                      [NewPackage EXCEPT !.name = n, !.revision = cat[n],
                                         !.url = ArchiveUrl(TarXz(n))]]
    /\ \E have \in [UpdateNames -> Revisions \cup {Absent}] :
          LET held == {n \in UpdateNames : have[n] # Absent}
          IN  /\ installed = {Row("default", n, have[n]) : n \in held}
              /\ dirs = [p \in {"default"} |-> {StorePath(n, have[n]) : n \in held}]
    /\ active = "default"
    /\ rTarget = "" /\ rOut = NotRun
    /\ job = NoJob /\ pText = <<>> /\ pOut = NotRun
    /\ txt = 0 /\ fresh = FALSE /\ bin = NoBin
    /\ backupsRoot = FALSE /\ backupDirs = NoBackupDirs /\ backups = {}
    /\ staging = {}
    /\ last = [cmd |-> "", arg |-> <<>>, ok |-> TRUE, err |-> "", tasks |-> 0]
    /\ allOk = TRUE
    /\ snap = [n \in {} |-> {}]
    /\ ncmds = 1 /\ mayFault = TRUE

UpdateDrawn ==
    /\ rOut = NotRun
    /\ rOut' = UpdatePlan(Sys, rTlpdb)
    /\ \E fo \in [1..Len(UpdatePlan(Sys, rTlpdb).to_update) -> FetchOutcomes] :
          \E xfail \in Unpacks(fo) :
             CommitSys("update", <<>>, Loaded(Cache, rTlpdb),
                       update_packages(Sys, rTlpdb, fo, xfail),
                       FetchFaults(fo, xfail))
    /\ UNCHANGED <<rTlpdb, rTarget>>

NextUpdate == UpdateDrawn

SpecUpdate == InitUpdate /\ [][NextUpdate]_vars

(***************************************************************************)
(* One `install` in steps (main.rs 435-504).  The catalog is a version the *)
(* mirror serves, the root is fresh.  Each download task (375-433) sends   *)
(* its GET, creates its staging file and streams into it; tasks advance in *)
(* any order and any of them may fail.  The command awaits them all, then  *)
(* unpacks the archives one at a time; any unpack may fail.                *)
(***************************************************************************)
\* task states: "spawned", "created" (the staging file exists), and the
\* three results of FetchOutcomes
Finished(t) == t \in FetchOutcomes

InitFetch ==
    /\ \E k \in DOMAIN Catalogs : rTlpdb = Parsed[k]
    /\ rTarget \in PackageNames
    /\ rOut = NotRun
    /\ SysInit
    /\ ncmds = 1 /\ mayFault = TRUE

\* the variables a step of the command in progress leaves alone
JobFrame == UNCHANGED <<rTlpdb, rTarget, txt, fresh, bin, backupsRoot, backupDirs,
                        backups, mayFault, snap, pText, pOut>>

SetSys(s) ==
    /\ dirs' = s.dirs /\ active' = s.active /\ installed' = s.installed
    /\ staging' = s.staging

\* the command returns: what main reports of it
JobEnds(out) ==
    /\ SetSys(out.sys)
    /\ last' = Ran("install", <<rTarget, "default">>, out)
    /\ allOk' = (allOk /\ out.ok)
    /\ ncmds' = ncmds - 1

JobGoesOn == UNCHANGED <<last, allOk, ncmds>>

\* main.rs 439-466: the profile directory, the plan, one task per entry
Spawn ==
    /\ job = NoJob /\ rOut = NotRun /\ ncmds >= 1
    /\ LET made == MkProfile(Sys, "default")
           plan == Resolve(rTarget, rTlpdb)
           to_install == plan.resolved
       IN  /\ rOut' = plan
           /\ IF plan.err # ""
              THEN /\ job' = [phase |-> "done"]
                   /\ JobEnds(Failed(made, plan.err))
              ELSE /\ job' = [phase |-> "fetching",
                              pkgs |-> [i \in DOMAIN to_install |-> rTlpdb[to_install[i]]],
                              task |-> [i \in DOMAIN to_install |-> "spawned"],
                              order |-> <<>>, paths |-> <<>>, pos |-> 1,
                              log |-> <<>>, xfail |-> 0]
                   /\ SetSys(made)
                   /\ JobGoesOn
    /\ JobFrame

\* main.rs 413-423: the GET fails, or the staging file is created
Respond(i) ==
    /\ job.phase = "fetching" /\ job.task[i] = "spawned"
    /\ \/ /\ job' = [job EXCEPT !.task[i] = "http", !.order = Append(@, i)]
          /\ UNCHANGED staging
       \/ /\ job' = [job EXCEPT !.task[i] = "created"]
          /\ staging' = staging \cup {download_path(job.pkgs[i])}
    /\ UNCHANGED <<dirs, active, installed, rOut>>
    /\ JobGoesOn /\ JobFrame

\* main.rs 424-432: the stream ends, or a chunk fails
Stream(i) ==
    /\ job.phase = "fetching" /\ job.task[i] = "created"
    /\ \E r \in {"ok", "chunk"} :
          job' = [job EXCEPT !.task[i] = r, !.order = Append(@, i)]
    /\ UNCHANGED <<dirs, active, installed, staging, rOut>>
    /\ JobGoesOn /\ JobFrame

\* join_all in the order the tasks completed
JoinAllByCompletion(j) ==
    [k \in DOMAIN j.order |->
        [result |-> j.task[j.order[k]], path |-> download_path(j.pkgs[j.order[k]])]]

\* main.rs 468: join_all gives the results in the order of the tasks
JoinAll(j) ==
    [i \in DOMAIN j.task |-> [result |-> j.task[i], path |-> download_path(j.pkgs[i])]]

\* main.rs 468-475: all tasks are awaited; the first failed result, in task
\* order, is returned as the error of the command
Join ==
    /\ job.phase = "fetching" /\ \A i \in DOMAIN job.task : Finished(job.task[i])
    /\ LET download_results == JoinAll(job)
       IN  IF \E i \in DOMAIN download_results : download_results[i].result # "ok"
           THEN /\ job' = [job EXCEPT !.phase = "done"]
                /\ JobEnds(Spawned(Failed(Sys, "ArchiveFetch"), Len(job.pkgs)))
           ELSE /\ job' = [job EXCEPT !.phase = "extracting",
                               !.paths = [i \in DOMAIN download_results |->
                                            download_results[i].path]]
                /\ UNCHANGED <<dirs, active, installed, staging>>
                /\ JobGoesOn
    /\ UNCHANGED rOut /\ JobFrame

\* main.rs 478-494: one iteration of the loop over the zipped pairs
ExtractEntry(s, profile, pkg, path, unpack_fails) ==
    LET made == AddEntry(s, profile, StorePath(pkg.name, pkg.revision))
    IN  IF path \notin made.staging THEN Failed(made, "IO")
        ELSE IF unpack_fails THEN Failed(made, "ExtractFailure")
        ELSE Done(WriteRow([made EXCEPT !.staging = @ \ {path}], profile, pkg))

Extract ==
    /\ job.phase = "extracting" /\ job.pos <= Len(job.pkgs)
    /\ \E unpack_fails \in BOOLEAN :
          LET i == job.pos
              x == ExtractEntry(Sys, "default", job.pkgs[i], job.paths[i], unpack_fails)
              logged == [job EXCEPT !.log = Append(@, <<i, job.paths[i]>>)]
          IN  IF x.ok
              THEN /\ job' = [logged EXCEPT !.pos = i + 1]
                   /\ SetSys(x.sys)
                   /\ JobGoesOn
              ELSE /\ job' = [logged EXCEPT !.phase = "done",
                                  !.xfail = IF unpack_fails THEN i ELSE 0]
                   /\ JobEnds(Spawned(x, Len(job.pkgs)))
    /\ UNCHANGED rOut /\ JobFrame

\* main.rs 497-503
Finish ==
    /\ job.phase = "extracting" /\ job.pos > Len(job.pkgs)
    /\ job' = [job EXCEPT !.phase = "done"]
    /\ JobEnds(Spawned(SetActiveIfUnset(Sys, "default"), Len(job.pkgs)))
    /\ UNCHANGED rOut /\ JobFrame

\* the tasks of the command while it awaits them
Tasks == IF job.phase = "fetching" THEN DOMAIN job.task ELSE {}

NextFetch ==
    \/ Spawn
    \/ \E i \in Tasks : Respond(i)
    \/ \E i \in Tasks : Stream(i)
    \/ Join
    \/ Extract
    \/ Finish

SpecFetch == InitFetch /\ [][NextFetch]_vars

(***************************************************************************)
(* The extraction loops of install and update with one unpack failing.     *)
(* A run starts either from a profile and a catalog as SpecUpdate draws    *)
(* them, or from a fresh root, a catalog the mirror serves and a target;   *)
(* its one step runs `update`, or `install <target>` with every download   *)
(* succeeding and the unpack of any plan position failing.                 *)
(***************************************************************************)
InitExtract == InitUpdate \/ InitFetch

InstallDrawn ==
    /\ rOut = NotRun /\ rTarget # ""
    /\ rOut' = Resolve(rTarget, rTlpdb)
    /\ \E xfail \in 0..Len(Resolve(rTarget, rTlpdb).resolved) :
          CommitSys("install", <<rTarget, "default">>, Loaded(Cache, rTlpdb),
                    install_package(Sys, rTarget, "default", rTlpdb,
                                    AllOk(Len(Resolve(rTarget, rTlpdb).resolved)), xfail),
                    IF xfail = 0 THEN 0 ELSE 1)
    /\ UNCHANGED <<rTlpdb, rTarget>>

NextExtract == UpdateDrawn \/ InstallDrawn

SpecExtract == InitExtract /\ [][NextExtract]_vars

(***************************************************************************)
(* parse_tlpdb on every small block: a `name` line followed by at most     *)
(* MaxLines lines of BlockLines.  The one step parses the one-block text.  *)
(***************************************************************************)
MaxLines == 3

BlockLines ==
    {Line("revision", <<"7">>),
     Line("shortdesc", <<"s">>),
     Line("longdesc", <<"t">>),
     Line("depends", <<"a">>),         \* depends a
     Line("depends", <<" b", "a ">>),  \* depends  b,a
     Line("depends", <<"a", "">>),     \* depends a,
     Line("depends", <<"">>),          \* depends, a space and nothing more
     Line("runfiles", <<>>),
     Line("binfiles", <<>>),
     Indented("f1", <<>>),             \* a path after one space
     Indented("f2", <<>>),
     Line("name", <<"q">>)}

InitParse ==
    /\ \E body \in SeqsUpTo(BlockLines, MaxLines) :
          pText = << <<Line("name", <<"p">>)>> \o body >>
    /\ pOut = NotRun
    /\ job = NoJob
    /\ rTlpdb = EmptyIndex /\ rTarget = "" /\ rOut = NotRun
    /\ txt = 0 /\ fresh = FALSE /\ bin = NoBin
    /\ dirs = [p \in {} |-> {}] /\ active = NoActive /\ installed = {}
    /\ backupsRoot = FALSE /\ backupDirs = NoBackupDirs /\ backups = {}
    /\ staging = {}
    /\ last = [cmd |-> "", arg |-> <<>>, ok |-> TRUE, err |-> "", tasks |-> 0]
    /\ allOk = TRUE
    /\ snap = [n \in {} |-> {}]
    /\ ncmds = 1 /\ mayFault = FALSE

ParseDrawn ==
    /\ pOut = NotRun
    /\ pOut' = parse_tlpdb(pText)
    /\ UNCHANGED <<pText, job, rvars, svars>>

NextParse == ParseDrawn

SpecParse == InitParse /\ [][NextParse]_vars

(***************************************************************************)
(* The resolver on every index of four packages, all present, each with a  *)
(* list of at most two distinct dependencies (itself included); the target *)
(* is a.  This is the least size at which a package is shared by two       *)
(* branches that do not depend on each other.                              *)
(***************************************************************************)
DiamondNames == {"a", "b", "c", "d"}
FanLists ==
    {<<>>} \cup {<<x>> : x \in DiamondNames}
           \cup {p \in DiamondNames \X DiamondNames : p[1] # p[2]}

InitDiamond ==
    /\ \E d \in [DiamondNames -> FanLists] :
          rTlpdb = [n \in DiamondNames |-> PackageOf(n, d[n])]
    /\ rTarget = "a"
    /\ rOut = NotRun
    /\ SysInit
    /\ ncmds = 1 /\ mayFault = FALSE

SpecDiamond == InitDiamond /\ [][NextResolve]_vars

(***************************************************************************)
(* Claims about resolve_dependencies, checked under SpecResolve.           *)
(***************************************************************************)
Resolved == rOut # NotRun
ResolvedOk == Resolved /\ rOut.err = ""
Acyclic == ~HasCycle(rTlpdb, rTarget)
Present == FullyPresent(rTlpdb, rTarget)

\* C2: on an acyclic, fully present graph the run succeeds and `resolved`
\* holds each package reachable from the target exactly once.
C2_NoDuplicates ==
    (Resolved /\ Acyclic /\ Present) =>
        /\ rOut.err = ""
        /\ NoDups(rOut.resolved)
        /\ Range(rOut.resolved) = Reach(rTlpdb, rTarget)

\* u is a transitive dependency of v
DependsOn(v, u) == u \in ReachPlus(rTlpdb, v)

\* C3: on an acyclic graph the sequence produced holds exactly the packages
\* reachable from the target, every occurrence of a transitive dependency u
\* of v comes before every occurrence of v, and the target is last.
C3_TopologicalOrder ==
    (ResolvedOk /\ Acyclic) =>
        LET r == rOut.resolved
        IN  /\ Range(r) = Reach(rTlpdb, rTarget)
            /\ \A i, j \in DOMAIN r : DependsOn(r[j], r[i]) => i < j
            /\ r # <<>> /\ r[Len(r)] = rTarget

\* a run over three packages, one of them a dependency of both others
C3_Witness ==
    /\ ResolvedOk /\ Acyclic
    /\ Cardinality(Reach(rTlpdb, rTarget)) = 3
    /\ \E n \in Reach(rTlpdb, rTarget) :
          Cardinality({m \in DOMAIN rTlpdb : n \in DepsOf(rTlpdb, m)}) = 2

\* what `install` left on a root that was empty before it
NothingInstalled ==
    /\ last.cmd = "install" /\ ~last.ok
    /\ last.tasks = 0
    /\ staging = {}
    /\ installed = {}
    /\ \A p \in DOMAIN dirs : dirs[p] = {}
    /\ active = NoActive

\* n lies on a cycle
OnCycle(n) == n \in ReachPlus(rTlpdb, n)

\* C4 as stated: whenever a cycle is reachable from the target the run
\* fails with DependencyCycle and install fetches, extracts and records
\* nothing.
C4_CycleAlwaysReported ==
    (Resolved /\ ~Acyclic) =>
        /\ rOut.err = Cycle
        /\ last.err = Cycle
        /\ NothingInstalled

\* C4 amended: when a cycle is reachable from the target the run fails and
\* install fetches, extracts and records nothing; the error is
\* DependencyCycle, named at a package on a cycle, whenever every reachable
\* package is present (PackageNotFound can only come first otherwise); and
\* a <-> b resolved from a reports the cycle at a.
C4_CycleDetected ==
    (Resolved /\ ~Acyclic) =>
        /\ rOut.err \in {Cycle, NotFound}
        /\ last.err = rOut.err
        /\ NothingInstalled
        /\ Present => (rOut.err = Cycle /\ OnCycle(rOut.at))
        /\ rOut.err = NotFound => rOut.at \notin DOMAIN rTlpdb
        /\ (/\ rTarget = "a" /\ DOMAIN rTlpdb = {"a", "b"}
            /\ rTlpdb["a"].depends = <<"b">> /\ rTlpdb["b"].depends = <<"a">>)
               => (rOut.err = Cycle /\ rOut.at = "a")

\* a -> b -> a resolved from a, and the cycle reported
C4_Witness ==
    /\ Resolved /\ rTarget = "a" /\ DOMAIN rTlpdb = {"a", "b"}
    /\ rTlpdb["a"].depends = <<"b">> /\ rTlpdb["b"].depends = <<"a">>
    /\ rOut.err = Cycle /\ rOut.at = "a"
    /\ NothingInstalled

(***************************************************************************)
(* Claims about the commands, checked under Spec and SpecLong.             *)
(***************************************************************************)
ActiveRows == RowsOf(installed, active)
ActiveRowsNext == RowsOf(installed', active')

\* C1: at every command boundary reached by commands that all succeeded,
\* every installed_packages row has its directory
\* R/profiles/<profile>/<name>-r<revision>.
C1_RowsHaveDirs ==
    (allOk /\ last.ok) =>
        \A r \in installed :
            /\ DirName(r.profile) \in DOMAIN dirs
            /\ StorePath(r.name, r.revision) \in dirs[DirName(r.profile)]

\* C5: a successful update that moves a package of the active profile to
\* another revision leaves no directory of the revision it had before.
C5_OldVersionRemoved ==
    [][(last'.cmd = "update" /\ last'.ok) =>
          \A r \in ActiveRows :
              (\E q \in ActiveRowsNext : q.name = r.name /\ q.revision # r.revision)
                  => StorePath(r.name, r.revision) \notin dirs'[active']]_vars

\* C6: `backup create n` directly followed by `restore n` leaves the entries
\* and the rows of the active profile as they were.
C6_BackupRestoreRoundTrip ==
    [][(/\ last.cmd = "backup create" /\ last.ok
        /\ last'.cmd = "restore" /\ last'.ok /\ last'.arg = last.arg) =>
          /\ active' = active
          /\ dirs'[active'] = dirs[active]
          /\ ActiveRowsNext = ActiveRows]_vars

\* C7: after a successful `restore n` the active profile holds the entries
\* and the rows that the profile backed up held when `backup create n` last
\* completed.
C7_RestoreGivesSnapshot ==
    (last.cmd = "restore" /\ last.ok /\ last.arg[1] \in DOMAIN snap) =>
        /\ dirs[active] = snap[last.arg[1]].entries
        /\ {<<r.name, r.revision>> : r \in ActiveRows} = snap[last.arg[1]].rows

\* C8: a successful install leaves R/active present, and R/active, when
\* present, targets an existing directory R/profiles/<p>.
C8_ActivePointer ==
    /\ (last.cmd = "install" /\ last.ok) => active # NoActive
    /\ active # NoActive => active \in DOMAIN dirs

\* C9: a run that finds the text fresh and the binary form undecodable
\* does not fail on it: it reparses the text and rewrites the binary form.
C9_FallsBackToText ==
    [][(/\ txt # 0 /\ fresh /\ bin = BadBin
        /\ ncmds' < ncmds /\ txt' = txt /\ fresh' /\ last'.err # "Killed") =>
          /\ last'.err # "Deserialize"
          /\ bin' = Serialize(txt)]_vars

\* C10: a decodable tlpdb.bin holds the parse of the text now in tlpdb.txt.
C10_BinaryMatchesText ==
    CanDeserialize(bin) =>
        /\ txt # 0
        /\ Deserialize(bin) = parse_tlpdb(Catalogs[txt])

(***************************************************************************)
(* Claims about single commands.  A step of the machine is one command;    *)
(* the unprimed variables are the root before it, the primed ones after.   *)
(***************************************************************************)
\* the errors of the catalog load that precedes every command (main.rs 96)
LoadErrors == {"Deserialize", "CatalogFetch", "Killed"}

\* the step is the command cmd, and the catalog load before it succeeded
Runs(cmd) == last'.cmd = cmd /\ ncmds' < ncmds /\ last'.err \notin LoadErrors

PairsOf(rows) == {<<r.name, r.revision>> : r \in rows}

BackupRowsOf(tbl, n) == {b \in tbl : b.backup_name = n}

\* C11: `backup create n` is all-or-nothing: a failed run changes neither
\* R/backups/<n> nor any backups row; a successful run leaves in R/backups/<n>
\* the copy of the active profile and one backups row per installed row.
C11_BackupAllOrNothing ==
    [][Runs("backup create") =>
          LET n == last'.arg[1]
          IN  IF last'.ok
              THEN /\ backupDirs'[n] = dirs[active]
                   /\ PairsOf(BackupRowsOf(backups', n)) = PairsOf(ActiveRows)
              ELSE /\ backupDirs' = backupDirs
                   /\ backups' = backups]_vars

\* the rows whose catalog revision is numerically strictly greater
Newer(rows, tlpdb) ==
    {r \in rows :
        /\ r.name \in DOMAIN tlpdb
        /\ CanParseU32(r.revision) /\ CanParseU32(tlpdb[r.name].revision)
        /\ ParseU32(tlpdb[r.name].revision) > ParseU32(r.revision)}

\* C12: an update that gets past its preflight plans exactly the rows of the
\* active profile whose catalog revision is strictly greater than the
\* installed one: it starts one fetch per such row and, when it succeeds,
\* moves exactly those rows to the catalog revision; when no row has a
\* greater catalog revision it starts no fetch and changes no row, no
\* directory and no staging file.
C12_UpdatePlan ==
    [][(Runs("update") /\ last'.err \notin {"NoActive", "RevisionFormat"}) =>
          LET plan == Newer(ActiveRows, rTlpdb)
          IN  /\ last'.tasks = Cardinality(plan)
              /\ last'.ok =>
                    installed' = (installed \ plan) \cup
                        {Row(active, r.name, rTlpdb[r.name].revision) : r \in plan}
              /\ plan = {} =>
                    /\ last'.ok
                    /\ dirs' = dirs /\ installed' = installed
                    /\ staging' = staging]_vars

\* an update that found the catalog behind one installed revision (10
\* against 9) and level with the other
C12_Witness ==
    /\ last.cmd = "update" /\ last.ok /\ last.tasks = 0
    /\ PairsOf(ActiveRows) = {<<"a", "11">>, <<"x", "10">>}
    /\ DOMAIN rTlpdb = {"a", "x"}
    /\ rTlpdb["a"].revision = "11" /\ rTlpdb["x"].revision = "9"

\* the rows that are in the catalog with a revision, installed or
\* listed, that is not a decimal number
Unparsable(rows, tlpdb) ==
    {r \in rows :
        /\ r.name \in DOMAIN tlpdb
        /\ ~CanParseU32(r.revision) \/ ~CanParseU32(tlpdb[r.name].revision)}

\* C13: when a row of the active profile that the catalog lists has an
\* installed or a catalog revision that does not parse, update fails with
\* RevisionFormat, starts no fetch and changes no row, no directory and no
\* staging file, whatever the other rows are.
C13_RevisionFormat ==
    [][(/\ Runs("update") /\ last'.err # "NoActive"
        /\ Unparsable(ActiveRows, rTlpdb) # {}) =>
          /\ ~last'.ok /\ last'.err = "RevisionFormat"
          /\ last'.tasks = 0
          /\ dirs' = dirs /\ installed' = installed
          /\ staging' = staging]_vars

\* a at 10 has the valid newer revision 11 and comes first; x was
\* installed at "unknown"
C13_Witness ==
    /\ last.cmd = "update" /\ last.err = "RevisionFormat"
    /\ PairsOf(ActiveRows) = {<<"a", "10">>, <<"x", "unknown">>}
    /\ DOMAIN rTlpdb = {"a", "x"}
    /\ rTlpdb["a"].revision = "11" /\ rTlpdb["x"].revision = "11"

\* C14: `remove p` for a package with no row in the active profile fails
\* with PackageNotFound and changes no row and no directory.
C14_RemoveMissingFails ==
    [][(/\ Runs("remove") /\ ActiveExists(Sys)
        /\ ~\E r \in ActiveRows : r.name = last'.arg[1]) =>
          /\ ~last'.ok /\ last'.err = NotFound
          /\ dirs' = dirs /\ installed' = installed]_vars

\* C15: `profile remove n` on an existing profile fails with ProfileInUse
\* and changes nothing when n is the active profile; otherwise it removes
\* R/profiles/<n> and every row of that profile, and nothing of the others.
C15_ProfileRemove ==
    [][(Runs("profile remove") /\ DirName(last'.arg[1]) \in DOMAIN dirs) =>
          LET d == DirName(last'.arg[1])
          IN  IF active = d
              THEN /\ ~last'.ok /\ last'.err = "ProfileInUse"
                   /\ dirs' = dirs /\ installed' = installed
                   /\ active' = active
              ELSE /\ last'.ok
                   /\ dirs' = [p \in DOMAIN dirs \ {d} |-> dirs[p]]
                   /\ installed' = {r \in installed : DirName(r.profile) # d}
                   /\ active' = active]_vars

\* C16: `profile switch n` fails with ProfileMissing and leaves R/active
\* as it was when R/profiles/<n> does not exist; when it exists the command
\* ends with R/active pointing to it, whatever R/active was before, and
\* changes no row and no profile directory.
C16_ProfileSwitch ==
    [][Runs("profile switch") =>
          LET d == DirName(last'.arg[1])
          IN  IF d \notin DOMAIN dirs
              THEN /\ ~last'.ok /\ last'.err = "ProfileMissing"
                   /\ active' = active
              ELSE /\ last'.ok
                   /\ active' = d
                   /\ dirs' = dirs /\ installed' = installed]_vars

\* C17: a successful install leaves the target profile in place, points
\* R/active at it when there was no R/active, and leaves R/active as it
\* was when there was one.
C17_InstallSetsActiveOnce ==
    [][(Runs("install") /\ last'.ok) =>
          LET d == DirName(last'.arg[2])
          IN  /\ d \in DOMAIN dirs'
              /\ active = NoActive => active' = d
              /\ active # NoActive => active' = active]_vars

\* an install into p1 that succeeded while default was, and stayed, active
C17_Witness ==
    /\ last.cmd = "install" /\ last.ok /\ last.arg[2] = "p1"
    /\ active = "default"
    /\ {"default", "p1"} \subseteq DOMAIN dirs
    /\ \E r \in installed : r.profile = "p1"

\* the caches the catalog load that precedes every command can leave behind
LoadedCaches == {Load(Cache, in).cache : in \in LoadInputs(Cache)}

C19_FetchFailureAborts ==
    [][(ncmds' < ncmds /\ last'.err = "ArchiveFetch") =>
         /\ last'.cmd \in {"install", "update"} /\ ~last'.ok
         /\ installed' = installed
         /\ active' = active
         /\ DOMAIN dirs \subseteq DOMAIN dirs'
         /\ \A p \in DOMAIN dirs' :
               dirs'[p] = IF p \in DOMAIN dirs THEN dirs[p] ELSE {}
         /\ staging \subseteq staging']_vars

\* an install of three plan entries of which one fetch failed and another
\* left its archive in staging
C19_Witness ==
    /\ last.cmd = "install" /\ last.err = "ArchiveFetch" /\ last.tasks = 3
    /\ staging # {} /\ installed = {}

\* C20: for a target whose closure is present, acyclic and holds at least
\* one dependency, with every fetch and every unpack succeeding, install
\* succeeds, no staging file is missing when its entry is unpacked or left
\* behind afterwards, and the table holds exactly one row for every package
\* of the closure.
C20_InstallClosureSucceeds ==
    (Resolved /\ Acyclic /\ Present /\ DepsOf(rTlpdb, rTarget) # {}) =>
        /\ last.cmd = "install" /\ last.ok
        /\ staging = {}
        /\ PairsOf(installed) =
              {<<n, rTlpdb[n].revision>> : n \in Reach(rTlpdb, rTarget)}
        /\ Cardinality(installed) = Cardinality(Reach(rTlpdb, rTarget))

(***************************************************************************)
(* Claims about the download tasks of one command.                         *)
(***************************************************************************)
\* the packages install_package hands to its download tasks (454-457)
PlanPackages == [i \in DOMAIN rOut.resolved |-> rTlpdb[rOut.resolved[i]]]

\* C21: the download tasks spawned by one install write pairwise distinct
\* staging files.
C21_DistinctStagingPaths ==
    (ResolvedOk /\ last.cmd = "install") => NoDups(TaskPaths(PlanPackages))

\* the command has spawned its tasks
HasTasks == job.phase \in {"fetching", "extracting"} \/ (job.phase = "done" /\ rOut.err = "")

\* the root before the command
FreshSys ==
    [dirs |-> [p \in {} |-> {}], active |-> NoActive, installed |-> {},
     backupsRoot |-> FALSE, backupDirs |-> NoBackupDirs, backups |-> {},
     staging |-> {}]

\* what the command leaves as a function of the results of its tasks and of
\* the unpack that failed, whatever the order in which the tasks completed
OutcomeOf(j) ==
    install_package(FreshSys, rTarget, "default", rTlpdb,
                    [i \in DOMAIN j.task |-> j.task[i]], j.xfail)

\* C22: whatever the order in which the download tasks advance and
\* complete, no archive is unpacked before every task has finished; the
\* k-th archive unpacked is the k-th plan entry, opened from that entry's
\* own staging file; and the rows, directories and result the command
\* leaves depend only on the results of the tasks, not on their order.
C22_ExtractInPlanOrder ==
    HasTasks =>
        /\ (job.phase = "extracting" \/ job.log # <<>>) =>
               \A i \in DOMAIN job.task : job.task[i] = "ok"
        /\ \A k \in DOMAIN job.log :
               job.log[k] = <<k, download_path(job.pkgs[k])>>
        /\ job.phase = "done" =>
               /\ Sys = OutcomeOf(job).sys
               /\ last.ok = OutcomeOf(job).ok /\ last.err = OutcomeOf(job).err

\* three tasks of which the last completed first and the first last, and
\* the archive of the first plan entry unpacked
C22_Witness ==
    /\ HasTasks /\ job.phase = "done"
    /\ job.order = <<3, 2, 1>>
    /\ job.log # <<>> /\ installed # {}

(***************************************************************************)
(* Claims about the extraction loop, checked under SpecExtract.            *)
(***************************************************************************)
\* the plan of the command that just ran and the profile it writes to
PlanRan ==
    IF last'.cmd = "update" THEN rOut'.to_update
    ELSE [i \in DOMAIN rOut'.resolved |-> rTlpdb[rOut'.resolved[i]]]
ProfileRan == IF last'.cmd = "update" THEN active ELSE "default"

\* the table once the rows of the first k entries of plan are written
RowsAfter(rows, profile, plan, k) ==
    {r \in rows : r.profile # profile \/ r.name \notin {plan[i].name : i \in 1..k}}
        \cup {Row(profile, plan[i].name, plan[i].revision) : i \in 1..k}

\* C23: an install or update that got past its downloads has written the
\* rows of exactly the first k plan entries, for some k, each after its
\* archive was unpacked into the profile and removed from staging; when an
\* unpack fails the command fails with ExtractFailure at entry k + 1, whose
\* directory and archive are left behind, and the rows of that entry and
\* of the later ones are as before; when it succeeds k is the whole plan.
C23_RowAfterExtraction ==
    [][(/\ ncmds' < ncmds /\ last'.cmd \in {"install", "update"}
        /\ last'.tasks > 0 /\ last'.err # "ArchiveFetch") =>
         \E k \in 0..Len(PlanRan) :
            /\ installed' = RowsAfter(installed, ProfileRan, PlanRan, k)
            /\ \A i \in 1..k :
                  /\ StorePath(PlanRan[i].name, PlanRan[i].revision) \in dirs'[ProfileRan]
                  /\ download_path(PlanRan[i]) \notin staging'
            /\ last'.ok <=> k = Len(PlanRan)
            /\ last'.err = "ExtractFailure" =>
                  /\ ~last'.ok
                  /\ StorePath(PlanRan[k + 1].name, PlanRan[k + 1].revision)
                         \in dirs'[ProfileRan]
                  /\ download_path(PlanRan[k + 1]) \in staging'
                  /\ \A i \in (k + 1)..Len(PlanRan) :
                        download_path(PlanRan[i]) \in staging']_vars

\* an update of a and x whose second unpack failed: the row of a is at the
\* catalog revision, the row of x is not
C23_Witness ==
    /\ last.cmd = "update" /\ last.err = "ExtractFailure" /\ last.tasks = 2
    /\ Row("default", "a", rTlpdb["a"].revision) \in installed
    /\ Row("default", "x", rTlpdb["x"].revision) \notin installed
    /\ \E r \in installed : r.name = "x"

(***************************************************************************)
(* Claims about parse_tlpdb, checked under SpecParse.                      *)
(***************************************************************************)
ParseRan == pOut # NotRun
\* the lines of the block and the record parsed from it
Block == pText[1]
ThePackage == pOut[CHOOSE n \in DOMAIN pOut : TRUE]
IsDepends(line) == line.kw = "depends" /\ ~line.indent
NamesOf(line) == {TrimStr(line.val[i]) : i \in DOMAIN line.val} \ {""}

\* C24: a depends or revision line that follows the longdesc line of a
\* block is applied to the record: its names are among the dependencies,
\* its value is the revision.
C24_LongdescEndsAtDirective ==
    (ParseRan /\ Len(Block) >= 3 /\ Block[2] = Line("longdesc", <<"t">>)) =>
        /\ IsDepends(Block[3]) => NamesOf(Block[3]) \subseteq Range(ThePackage.depends)
        /\ Block[3] = Line("revision", <<"7">>) => ThePackage.revision = "7"

\* the paths of the lines that start with a space and follow line i, up to
\* the first line that does not
RECURSIVE PathsFrom(_)
PathsFrom(i) ==
    IF i > Len(Block) \/ ~Block[i].indent THEN <<>>
    ELSE <<Block[i].kw>> \o PathsFrom(i + 1)

OnlyAt2(word) ==
    /\ Len(Block) >= 2 /\ Block[2] = Line(word, <<>>)
    /\ \A i \in DOMAIN Block : i # 2 => Block[i] # Line(word, <<>>)

\* C25: the lines that start with a space and follow the runfiles (resp.
\* binfiles) line of a block are the recorded runfiles (resp. binfiles),
\* one path for each line.
C25_ContinuationLinesRecorded ==
    ParseRan =>
        /\ OnlyAt2("runfiles") => ThePackage.runfiles = PathsFrom(3)
        /\ OnlyAt2("binfiles") => ThePackage.binfiles = PathsFrom(3)

\* C26: no dependency with an empty name is recorded, a depends line with
\* an empty value adds nothing, and the dependencies are the trimmed,
\* non-empty names of the depends lines of the block, in order.
RECURSIVE DependsFrom(_)
DependsFrom(i) ==
    IF i > Len(Block) THEN <<>>
    ELSE (IF IsDepends(Block[i])
          THEN SelectSeq(DependsFields(Block[i]), LAMBDA d : d # "")
          ELSE <<>>) \o DependsFrom(i + 1)

NoLongdesc == \A i \in DOMAIN Block : Block[i].kw # "longdesc"

C26_NoEmptyDependency ==
    ParseRan =>
        /\ \A i \in DOMAIN ThePackage.depends : ThePackage.depends[i] # ""
        /\ NoLongdesc => ThePackage.depends = DependsFrom(1)

(***************************************************************************)
(* Claims about resolve_dependencies, checked under SpecDiamond.           *)
(***************************************************************************)
\* C27: a DependencyCycle is reported only when a cycle is reachable from
\* the target, and at a package that lies on one; on every acyclic index
\* whose reachable packages are present the run succeeds.
C27_CycleOnlyWhenReal ==
    Resolved =>
        /\ rOut.err = Cycle => (~Acyclic /\ OnCycle(rOut.at))
        /\ (Acyclic /\ Present) => rOut.err = ""

\* the diamond: a depends on b and c, both depend on d
C27_Witness ==
    /\ ResolvedOk /\ Acyclic
    /\ rTlpdb["a"].depends = <<"b", "c">>
    /\ rTlpdb["b"].depends = <<"d">> /\ rTlpdb["c"].depends = <<"d">>
    /\ rTlpdb["d"].depends = <<>>

(***************************************************************************)
(* Claims about resolve_dependencies, checked under SpecResolveSteps.      *)
(***************************************************************************)
Returned == job.phase = "returned"

\* C28: on every index and target the run of resolve_dependencies ends, in
\* success or in DependencyCycle or PackageNotFound; at no point has the
\* body past the cycle check run more than once for a package name; and
\* the run returns what the recursive definition gives.
C28_Terminates ==
    /\ <>Returned
    /\ [](job.phase # "none" =>
             /\ \A n \in ResolveNames : job.runs[n] <= 1
             /\ job.st.err \in {"", Cycle, NotFound}
             /\ Returned => job.st = Resolve(rTarget, rTlpdb))

\* a finished run that entered three packages and met a cycle
C28_Witness ==
    /\ Returned /\ job.st.err = Cycle
    /\ \A n \in ResolveNames : job.runs[n] = 1

(***************************************************************************)
(* Claims about main, checked under SpecAll.                               *)
(***************************************************************************)
Commands ==
    {"install", "update", "list", "remove", "profile create", "profile switch",
     "profile list", "profile remove", "backup create", "backup list",
     "backup remove", "restore", "clean"}

\* the load of the command that just ran failed
LoadFailedNow == ncmds' < ncmds /\ last'.err \in LoadErrors

\* C29: every command loads the catalog first, so the cache it leaves is
\* one the load can leave; when the load fails the command fails with the
\* load's error and the profile directories, the installed-packages rows,
\* the backups, the staging files and the active pointer are as before.
C29_LoadBeforeDispatch ==
    [][ncmds' < ncmds =>
         /\ last'.cmd \in Commands
         /\ [txt |-> txt', fresh |-> fresh', bin |-> bin'] \in LoadedCaches
         /\ LoadFailedNow =>
               /\ ~last'.ok
               /\ dirs' = dirs /\ installed' = installed /\ active' = active
               /\ backupsRoot' = backupsRoot /\ backupDirs' = backupDirs
               /\ backups' = backups /\ staging' = staging]_vars

\* `list` failing on a catalog that has aged and cannot be fetched, beside
\* an installed package
C29_Witness ==
    /\ last.cmd = "list" /\ ~last.ok /\ last.err = "CatalogFetch"
    /\ installed # {} /\ active # NoActive

====
